---------------------------- MODULE Spec2Model ----------------------------
(***************************************************************************)
(* Model of the fectl worker supervisor (src/src/worker.rs) and of the     *)
(* operator client's frame codec (src/client/client.rs).                   *)
(*                                                                         *)
(* Worker part: one worker slot.  The Worker's fields are the variables    *)
(* state, events, restore_from_fail, started and restarts.  The child      *)
(* processes the slot spawned are the environment: nextPid, spawnedAt,    *)
(* alive and sent.  Every handler                                          *)
(* of Worker is an operator on a record w that holds the Worker's fields   *)
(* and the effects of the call; one action per event source applies it.    *)
(***************************************************************************)
EXTENDS Integers, Sequences, FiniteSets, TLC

(***************************************************************************)
(* Bounds of the exploration.                                              *)
(***************************************************************************)
\* children one slot may spawn in a run
MaxPid == 4
\* operator commands and child messages delivered in a run
MaxOps == 3
\* the clock stops here
MaxTime == 12

(***************************************************************************)
(* Program constants.                                                      *)
(***************************************************************************)
\* cfg.restarts: "Number of restarts before marking worker as failed, default 3"
R == 2
\* Events::new(50)
EventsCap == 50
\* Duration::new(10, 0), fast restart check of a Starting child
FastStarting == 10
\* Duration::new(3, 0), fast restart check of a Reloading/Restarting child
FastReloading == 3
\* restarts: u16
U16 == 65536

NoPid == 0
Pids == 1..MaxPid
\* seconds the clock may advance in one step
TickSteps == {6}

\* ProcessError, by the classes the supervisor and the event ring tell apart
Errs == {"ExitCode0", "ExitCode1", "StartupTimeout"}
\* WorkerMessage
Msgs == {"reload", "restart", "hb"}
\* the operator's Reason
OpReason == "ConsoleRequest"

VARIABLES
    state,              \* Worker.state: [tag, p, old]
    events,             \* Worker.events: the ring, oldest first
    restore_from_fail,  \* Worker.restore_from_fail
    started,            \* Worker.started
    restarts,           \* Worker.restarts
    now,                \* Instant::now()
    nextPid,            \* the pid the next Process::start returns
    spawnedAt,          \* when the last Process::start forked its child
    alive,              \* pids spawned whose exit has not been delivered
    sent,               \* <<pid, command>> pairs dispatched so far
    ops,                \* operator commands and child messages so far
    cbuf,               \* codec: the reader's BytesMut
    wire,               \* codec: bytes written and not yet read
    inbox,              \* codec: results of decode, in order
    outbox,             \* codec: messages encoded so far, in order
    reads,              \* codec: reads of the connection so far
    cpc,                \* codec: state of the connection
    rcmd,               \* run: the ClientCommand
    rpc,                \* run: where the call is, or how it returned
    retry,              \* run: try_read_response's retry
    pongs,              \* run: Pong frames read in the response loop
    rlast,              \* run: what the last read_response returned
    result              \* run: the value returned

wvars == <<state, events, restore_from_fail, started, restarts, now,
           nextPid, spawnedAt, alive, sent, ops>>
cvars == <<cbuf, wire, inbox, outbox, reads, cpc>>
rvars == <<rcmd, rpc, retry, pongs, rlast, result>>
vars == <<state, events, restore_from_fail, started, restarts, now,
          nextPid, spawnedAt, alive, sent, ops,
          cbuf, wire, inbox, outbox, reads, cpc,
          rcmd, rpc, retry, pongs, rlast, result>>

(***************************************************************************)
(* WorkerState                                                             *)
(***************************************************************************)
Initial == [tag |-> "Initial", p |-> NoPid, old |-> NoPid]
Failed == [tag |-> "Failed", p |-> NoPid, old |-> NoPid]
Stopped == [tag |-> "Stopped", p |-> NoPid, old |-> NoPid]
Starting(p) == [tag |-> "Starting", p |-> p, old |-> NoPid]
Running(p) == [tag |-> "Running", p |-> p, old |-> NoPid]
Stopping(p) == [tag |-> "Stopping", p |-> p, old |-> NoPid]
Reloading(p, old) == [tag |-> "Reloading", p |-> p, old |-> old]
Restarting(p, old) == [tag |-> "Restarting", p |-> p, old |-> old]
StoppingOld(p, old) == [tag |-> "StoppingOld", p |-> p, old |-> old]

\* the pids held by the ProcessInfos of a state
TrackedPids(s) == {s.p, s.old} \ {NoPid}

(***************************************************************************)
(* Effects of a handler on the record w.                                   *)
(***************************************************************************)
\* Events::add(state, reason, pid): append, the oldest is dropped on overflow
EventsAdd(evs, st, reason, pid) ==
    LET e == [state |-> st, reason |-> reason, pid |-> pid]
    IN IF Len(evs) >= EventsCap THEN Append(Tail(evs), e) ELSE Append(evs, e)

Add(w, st, reason, pid) ==
    [w EXCEPT !.events = EventsAdd(w.events, st, reason, pid)]

\* Reason::from(&ProcessError)
ReasonOf(err) == err

\* ProcessInfo::{stop, quit, start, pause, resume}: addr.do_send(command)
Send(w, pid, cmd) ==
    [w EXCEPT !.sent = w.sent \cup {<<pid, cmd>>},
              !.cmds = Append(w.cmds, <<pid, cmd>>)]

\* Process::start: forks a child; its pid is fresh
NewPid(w) == w.nextPid
ProcessStart(w) == [w EXCEPT !.nextPid = w.nextPid + 1, !.spawnedAt = w.now]

SetState(w, s) == [w EXCEPT !.state = s]

\* self.restarts += 1 on a u16
Inc(r) == (r + 1) % U16

(***************************************************************************)
(* Worker::start                                                           *)
(***************************************************************************)
\* a slip: start spawns whatever the state is
startAnyState(w, reason) ==
    LET pid == NewPid(w)
    IN Add(SetState(ProcessStart(w), Starting(pid)), "Starting", reason, pid)

start(w, reason) ==
    IF w.state.tag \in {"Initial", "Stopped", "Failed"}
    THEN LET pid == NewPid(w)
         IN Add(SetState(ProcessStart(w), Starting(pid)), "Starting", reason, pid)
    ELSE w

(***************************************************************************)
(* Worker::loaded                                                          *)
(***************************************************************************)
\* a slip: the Restarting arm is a copy of the Reloading arm
loadedRestartingStops(w, pid) ==
    LET s == w.state IN
    CASE s.tag = "Starting" /\ s.p = pid ->
            LET w1 == [w EXCEPT !.restarts = 0]
                w2 == Send(w1, s.p, "start")
                w3 == Add(w2, "Running", "None", s.p)
                w4 == SetState(w3, Running(s.p))
            IN [w4 EXCEPT !.restore_from_fail = FALSE]
      [] s.tag \in {"Reloading", "Restarting"} /\ s.p = pid ->
            LET w1 == [w EXCEPT !.restarts = 0]
                w2 == Send(w1, s.old, "stop")
                w3 == Send(w2, s.p, "start")
                w4 == Add(w3, "StoppingOld", "None", s.old)
            IN SetState(w4, StoppingOld(s.p, s.old))
      [] OTHER -> w

loaded(w, pid) ==
    LET s == w.state IN
    CASE s.tag = "Starting" /\ s.p = pid ->
            LET w1 == [w EXCEPT !.restarts = 0]
                w2 == Send(w1, s.p, "start")
                w3 == Add(w2, "Running", "None", s.p)
                w4 == SetState(w3, Running(s.p))
            IN [w4 EXCEPT !.restore_from_fail = FALSE]
      [] s.tag = "Reloading" /\ s.p = pid ->
            LET w1 == [w EXCEPT !.restarts = 0]
                w2 == Send(w1, s.old, "stop")
                w3 == Send(w2, s.p, "start")
                w4 == Add(w3, "StoppingOld", "None", s.old)
            IN SetState(w4, StoppingOld(s.p, s.old))
      [] s.tag = "Restarting" /\ s.p = pid ->
            LET w1 == [w EXCEPT !.restarts = 0]
                w2 == Send(w1, s.old, "quit_graceful")
                w3 == Send(w2, s.p, "start")
                w4 == Add(w3, "StoppingOld", "None", s.old)
            IN SetState(w4, StoppingOld(s.p, s.old))
      [] OTHER -> w

(***************************************************************************)
(* Worker::reload                                                          *)
(***************************************************************************)
\* a slip: the replacement is spawned without a word in the ring
reloadSilent(w, graceful, reason) ==
    LET s == w.state IN
    CASE s.tag = "Running" ->
            LET pid == NewPid(w)
                w1 == ProcessStart(w)
            IN IF graceful
               THEN SetState(w1, Reloading(pid, s.p))
               ELSE SetState(w1, Restarting(pid, s.p))
      [] s.tag \in {"Failed", "Stopped"} ->
            start(SetState([w EXCEPT !.restarts = 0], Initial), reason)
      [] OTHER -> w

\* a slip: the old process is told to stop when its replacement is spawned
reloadStopsOldFirst(w, graceful, reason) ==
    LET s == w.state IN
    CASE s.tag = "Running" ->
            LET pid == NewPid(w)
                w1 == Send(ProcessStart(w), s.p, "stop")
            IN IF graceful
               THEN SetState(Add(w1, "Reloading", reason, s.p), Reloading(pid, s.p))
               ELSE SetState(Add(w1, "Restarting", reason, s.p), Restarting(pid, s.p))
      [] s.tag \in {"Failed", "Stopped"} ->
            start(SetState([w EXCEPT !.restarts = 0], Initial), reason)
      [] OTHER -> w

reload(w, graceful, reason) ==
    LET s == w.state IN
    CASE s.tag = "Running" ->
            LET pid == NewPid(w)
                w1 == ProcessStart(w)
            IN IF graceful
               THEN SetState(Add(w1, "Reloading", reason, s.p), Reloading(pid, s.p))
               ELSE SetState(Add(w1, "Restarting", reason, s.p), Restarting(pid, s.p))
      [] s.tag \in {"Failed", "Stopped"} ->
            start(SetState([w EXCEPT !.restarts = 0], Initial), reason)
      [] OTHER -> w

(***************************************************************************)
(* Worker::stop                                                            *)
(***************************************************************************)
\* a slip: the overlap is stopped by changing the tag alone
stopReplacingKeepsBoth(w, reason) ==
    LET s == w.state
        w1 == Send(w, s.p, "quit_graceful")
        w2 == Send(w1, s.old, "stop")
    IN SetState(Add(w2, "Stopping", reason, s.old), [s EXCEPT !.tag = "Stopping"])

\* a slip: both processes of the overlap are stopped gracefully
stopReplacingStopsNew(w, reason) ==
    LET s == w.state
        w1 == Send(w, s.p, "stop")
        w2 == Send(w1, s.old, "stop")
    IN SetState(Add(w2, "Stopping", reason, s.old), Stopping(s.old))

\* WorkerState::Reloading(process, old_proc), WorkerState::Restarting(..)
stopReplacing(w, reason) ==
    LET s == w.state
        w1 == Send(w, s.p, "quit_graceful")
        w2 == Send(w1, s.old, "stop")
    IN SetState(Add(w2, "Stopping", reason, s.old), Stopping(s.old))

stop(w, reason) ==
    LET s == w.state IN
    CASE s.tag \in {"Initial", "Stopped", "Failed"} ->
            Add(SetState(w, Stopped), "Stopped", reason, NoPid)
      [] s.tag = "Starting" ->
            SetState(Add(Send(w, s.p, "quit_graceful"), "Stopping", reason, s.p),
                     Stopping(s.p))
      [] s.tag = "Stopping" -> w
      [] s.tag = "StoppingOld" ->
            LET w1 == Send(w, s.old, "quit_graceful")
                w2 == Send(w1, s.p, "stop")
            IN SetState(Add(w2, "Stopping", reason, s.p), Stopping(s.p))
      [] s.tag = "Running" ->
            SetState(Add(Send(w, s.p, "stop"), "Stopping", reason, s.p),
                     Stopping(s.p))
      [] s.tag \in {"Reloading", "Restarting"} -> stopReplacing(w, reason)

(***************************************************************************)
(* Worker::quit                                                            *)
(***************************************************************************)
quit(w, reason) ==
    LET s == w.state IN
    CASE s.tag \in {"Initial", "Stopped", "Failed"} ->
            Add(SetState(w, Stopped), "Stopped", reason, NoPid)
      [] s.tag = "Starting" ->
            SetState(Add(Send(w, s.p, "quit_graceful"), "Stopping", reason, s.p),
                     Stopping(s.p))
      [] s.tag = "Stopping" -> w
      [] s.tag = "StoppingOld" ->
            LET w1 == Send(w, s.old, "quit_graceful")
                w2 == Send(w1, s.p, "quit_graceful")
            IN SetState(Add(w2, "StoppingOld", reason, s.p), Stopping(s.p))
      [] s.tag = "Running" ->
            SetState(Add(Send(w, s.p, "quit_graceful"), "Stopping", reason, s.p),
                     Stopping(s.p))
      [] s.tag \in {"Reloading", "Restarting"} ->
            LET w1 == Send(w, s.p, "quit_graceful")
                w2 == Send(w1, s.old, "quit_graceful")
            IN SetState(Add(w2, "Stopping", reason, s.old), Stopping(s.old))

(***************************************************************************)
(* Worker::message                                                         *)
(***************************************************************************)
\* a slip: the request of a child is passed on whatever the state is
messageAnyState(w, pid, msg) ==
    IF w.state.tag = "Running" => w.state.p = pid
    THEN CASE msg = "reload" -> reload(w, TRUE, "WorkerRequest")
           [] msg = "restart" -> reload(w, FALSE, "WorkerRequest")
           [] OTHER -> w
    ELSE w

\* a slip: the request of any child is taken for the running child's
messageAnyPid(w, pid, msg) ==
    IF w.state.tag = "Running"
    THEN CASE msg = "reload" -> reload(w, TRUE, "WorkerRequest")
           [] msg = "restart" -> reload(w, FALSE, "WorkerRequest")
           [] OTHER -> w
    ELSE w

message(w, pid, msg) ==
    IF w.state.tag = "Running" /\ w.state.p = pid
    THEN CASE msg = "reload" -> reload(w, TRUE, "WorkerRequest")
           [] msg = "restart" -> reload(w, FALSE, "WorkerRequest")
           [] OTHER -> w
    ELSE w

(***************************************************************************)
(* Worker::pause, Worker::resume                                           *)
(***************************************************************************)
\* a slip: a child that is still starting is paused as well
pauseWhileStarting(w, reason) ==
    IF w.state.tag \in {"Running", "Starting"}
    THEN Add(Send(w, w.state.p, "pause"), "Paused", reason, w.state.p)
    ELSE w

pause(w, reason) ==
    IF w.state.tag = "Running"
    THEN Add(Send(w, w.state.p, "pause"), "Paused", reason, w.state.p)
    ELSE w

resume(w, reason) ==
    IF w.state.tag = "Running"
    THEN Add(Send(w, w.state.p, "resume"), "Running", reason, w.state.p)
    ELSE w

(***************************************************************************)
(* Worker::exited                                                          *)
(***************************************************************************)
\* a slip: a child that was up long enough is forgiven whatever its exit
FastRestartAnyExit(w, err, limit) ==
    IF w.now - w.started > limit
    THEN [w EXCEPT !.started = w.now, !.restarts = 0]
    ELSE [w EXCEPT !.restarts = Inc(w.restarts)]

\* "check for fast restart": the match on *err that updates restarts
FastRestart(w, err, limit) ==
    IF err = "ExitCode0"
    THEN IF w.now - w.started > limit
         THEN [w EXCEPT !.started = w.now, !.restarts = 0]
         ELSE [w EXCEPT !.restarts = Inc(w.restarts)]
    ELSE [w EXCEPT !.restarts = Inc(w.restarts)]

\* a slip: a timeout of the running child is handled as any other exit
exitedRunningTimeoutRespawns(w, pid, err) ==
    LET s == w.state IN
    IF s.p # pid THEN w
    ELSE LET w1 == Send(w, s.p, "quit_kill")
             w2 == [w1 EXCEPT !.started = w.now]
             w3 == Add(SetState(w2, Initial), "Stopped", ReasonOf(err), pid)
         IN start(w3, "RestartFailedRunningWorker")

\* WorkerState::Running(process)
exitedRunning(w, pid, err) ==
    LET s == w.state IN
    IF s.p # pid THEN w
    ELSE IF err = "StartupTimeout"
         THEN LET w1 == Add(w, "Running", ReasonOf(err), pid)
                  w2 == [w1 EXCEPT !.restore_from_fail = TRUE]
              IN reload(w2, FALSE, "ReloadAftreTimeout")
         ELSE LET w1 == Send(w, s.p, "quit_kill")
                  w2 == [w1 EXCEPT !.started = w.now]
                  w3 == Add(SetState(w2, Initial), "Stopped", ReasonOf(err), pid)
              IN start(w3, "RestartFailedRunningWorker")

\* WorkerState::Starting(process)
exitedStarting(w, pid, err) ==
    LET s == w.state IN
    IF s.p # pid THEN w
    ELSE LET w1 == FastRestart(w, err, FastStarting)
             w2 == Add(w1, "Failed", ReasonOf(err), pid)
         IN IF w2.restarts < R
            THEN start(SetState(Send(w2, s.p, "quit_kill"), Initial),
                       "RestartFailedStartingWorker")
            ELSE SetState(w2, Failed)

\* a slip: the exit of the old process keeps restore_from_fail as it was
exitedReplacingKeepsFlag(w, pid, err, failedTag) ==
    LET s == w.state IN
    IF s.p = pid
    THEN LET w1 == FastRestart(w, err, FastReloading)
             w2 == Add(w1, failedTag, ReasonOf(err), pid)
         IN IF w2.restarts < R
            THEN LET n == NewPid(w2)
                 IN SetState(ProcessStart(w2), [s EXCEPT !.p = n])
            ELSE LET w3 == [w2 EXCEPT !.restore_from_fail = TRUE]
                     w4 == Add(w3, "Running", "RestoreAftreFailed", s.old)
                 IN SetState(w4, Running(s.old))
    ELSE IF s.old = pid
    THEN LET w2 == Add(w, "Stopped", "None", pid)
             w3 == Add(w2, "Running", "None", s.p)
         IN SetState(w3, Running(s.p))
    ELSE w

\* WorkerState::Reloading(process, old_proc) and WorkerState::Restarting(..):
\* the two arms differ in the state they keep and in the event tag
exitedReplacing(w, pid, err, failedTag) ==
    LET s == w.state IN
    IF s.p = pid
    THEN LET w1 == FastRestart(w, err, FastReloading)
             w2 == Add(w1, failedTag, ReasonOf(err), pid)
         IN IF w2.restarts < R
            THEN LET n == NewPid(w2)
                 IN SetState(ProcessStart(w2), [s EXCEPT !.p = n])
            ELSE LET w3 == [w2 EXCEPT !.restore_from_fail = TRUE]
                     w4 == Add(w3, "Running", "RestoreAftreFailed", s.old)
                 IN SetState(w4, Running(s.old))
    ELSE IF s.old = pid
    THEN LET w1 == [w EXCEPT !.restore_from_fail = FALSE]
             w2 == Add(w1, "Stopped", "None", pid)
             w3 == Add(w2, "Running", "None", s.p)
         IN SetState(w3, Running(s.p))
    ELSE w

\* a slip: the exit of the old process is not logged
exitedStoppingOldSilent(w, pid, err) ==
    LET s == w.state IN
    IF s.p = pid
    THEN LET w1 == Send(w, s.old, "quit_kill")
             w2 == [w1 EXCEPT !.restarts = Inc(w.restarts)]
             w3 == Add(SetState(w2, Initial), "Failed", ReasonOf(err), pid)
         IN start(w3, "NewProcessDied")
    ELSE IF s.old = pid
    THEN LET w1 == [w EXCEPT !.restore_from_fail = FALSE]
             w3 == Add(w1, "Running", "None", s.p)
         IN SetState(w3, Running(s.p))
    ELSE w

\* a slip: the old process is left alone when the new one died
exitedStoppingOldKeepsOld(w, pid, err) ==
    LET s == w.state IN
    IF s.p = pid
    THEN LET w2 == [w EXCEPT !.restarts = Inc(w.restarts)]
             w3 == Add(SetState(w2, Initial), "Failed", ReasonOf(err), pid)
         IN start(w3, "NewProcessDied")
    ELSE IF s.old = pid
    THEN LET w1 == [w EXCEPT !.restore_from_fail = FALSE]
             w2 == Add(w1, "Stopped", "None", pid)
             w3 == Add(w2, "Running", "None", s.p)
         IN SetState(w3, Running(s.p))
    ELSE w

\* WorkerState::StoppingOld(process, old_proc)
exitedStoppingOld(w, pid, err) ==
    LET s == w.state IN
    IF s.p = pid
    THEN LET w1 == Send(w, s.old, "quit_kill")
             w2 == [w1 EXCEPT !.restarts = Inc(w.restarts)]
             w3 == Add(SetState(w2, Initial), "Failed", ReasonOf(err), pid)
         IN start(w3, "NewProcessDied")
    ELSE IF s.old = pid
    THEN LET w1 == [w EXCEPT !.restore_from_fail = FALSE]
             w2 == Add(w1, "Stopped", "None", pid)
             w3 == Add(w2, "Running", "None", s.p)
         IN SetState(w3, Running(s.p))
    ELSE w

\* a slip: the exit of the awaited child is logged, the slot keeps waiting
exitedStoppingKeepsWaiting(w, pid, err) ==
    IF w.state.p = pid
    THEN Add(w, "Stopped", ReasonOf(err), pid)
    ELSE w

\* a slip: any exit ends the wait, whichever child it is from
exitedStoppingAnyPid(w, pid, err) ==
    Add(SetState(w, Stopped), "Stopped", ReasonOf(err), pid)

\* WorkerState::Stopping(process)
exitedStopping(w, pid, err) ==
    IF w.state.p = pid
    THEN Add(SetState(w, Stopped), "Stopped", ReasonOf(err), pid)
    ELSE w

exited(w, pid, err) ==
    CASE w.state.tag = "Running" -> exitedRunning(w, pid, err)
      [] w.state.tag = "Starting" -> exitedStarting(w, pid, err)
      [] w.state.tag = "Reloading" -> exitedReplacing(w, pid, err, "ReloadFailed")
      [] w.state.tag = "Restarting" -> exitedReplacing(w, pid, err, "RestartFailed")
      [] w.state.tag = "StoppingOld" -> exitedStoppingOld(w, pid, err)
      [] w.state.tag = "Stopping" -> exitedStopping(w, pid, err)
      [] OTHER -> w

(***************************************************************************)
(* The slot and its environment.                                           *)
(***************************************************************************)
\* the Worker and the process table as a handler sees them; cmds collects
\* the commands the call dispatches, in order
Self ==
    [state |-> state, events |-> events, restore_from_fail |-> restore_from_fail,
     started |-> started, restarts |-> restarts, now |-> now,
     nextPid |-> nextPid, spawnedAt |-> spawnedAt, sent |-> sent,
     cmds |-> <<>>]

\* the pids Process::start forked during the call that returned w
SpawnedBy(w) == nextPid..(w.nextPid - 1)

\* the call changed nothing: no field, no command, no child
NoOp(w) == w = Self

\* a handler returned w: the Worker's fields and the children after the call.
\* gone is the set of children whose exit this call delivered.
Apply(w, gone) ==
    /\ w.nextPid <= MaxPid + 1
    /\ state' = w.state
    /\ events' = w.events
    /\ restore_from_fail' = w.restore_from_fail
    /\ started' = w.started
    /\ restarts' = w.restarts
    /\ nextPid' = w.nextPid
    /\ spawnedAt' = w.spawnedAt
    /\ sent' = w.sent
    /\ alive' = (alive \cup SpawnedBy(w)) \ gone
    /\ UNCHANGED <<now, cvars, rvars>>

\* an operator command or child message is counted when it took effect
Counted(w) ==
    /\ ops < MaxOps
    /\ ops' = IF NoOp(w) THEN ops ELSE ops + 1

\* an operator command, as the service fans it out to the slot
OpStart ==
    LET w == start(Self, OpReason) IN Counted(w) /\ Apply(w, {})

OpReload ==
    \E graceful \in BOOLEAN :
        LET w == reload(Self, graceful, OpReason) IN Counted(w) /\ Apply(w, {})

OpStop ==
    LET w == stop(Self, OpReason) IN Counted(w) /\ Apply(w, {})

OpQuit ==
    LET w == quit(Self, OpReason) IN Counted(w) /\ Apply(w, {})

OpPause ==
    LET w == pause(Self, OpReason) IN Counted(w) /\ Apply(w, {})

OpResume ==
    LET w == resume(Self, OpReason) IN Counted(w) /\ Apply(w, {})

\* a live child sends a WorkerMessage other than loaded
ChildMessage ==
    \E pid \in alive, msg \in Msgs :
        LET w == message(Self, pid, msg) IN Counted(w) /\ Apply(w, {})

\* a live child reports loaded
ChildLoaded ==
    /\ \E pid \in alive : Apply(loaded(Self, pid), {})
    /\ UNCHANGED ops

\* the exit of a live child is delivered, once
ChildExited ==
    /\ \E pid \in alive, err \in Errs : Apply(exited(Self, pid, err), {pid})
    /\ UNCHANGED ops

\* time passes
Tick ==
    /\ \E d \in TickSteps : now + d <= MaxTime /\ now' = now + d
    /\ UNCHANGED <<state, events, restore_from_fail, started, restarts,
                   nextPid, spawnedAt, alive, sent, ops, cvars, rvars>>

WNext ==
    \/ OpStart
    \/ OpReload
    \/ OpStop
    \/ OpQuit
    \/ OpPause
    \/ OpResume
    \/ ChildMessage
    \/ ChildLoaded
    \/ ChildExited
    \/ Tick

(***************************************************************************)
(* Byte strings.  A BytesMut is kept as its runs: a sequence of records    *)
(* [b, n], n >= 1 copies of byte b, adjacent runs of different bytes, so   *)
(* that equal byte strings are equal values and a 64 KiB payload is a      *)
(* handful of runs.                                                        *)
(***************************************************************************)
Rep(b, n) == IF n = 0 THEN <<>> ELSE <<[b |-> b, n |-> n]>>

RECURSIVE BLen(_)
BLen(s) == IF s = <<>> THEN 0 ELSE s[1].n + BLen(Tail(s))

\* a followed by b
BCat(a, b) ==
    IF a = <<>> THEN b
    ELSE IF b = <<>> THEN a
    ELSE IF a[Len(a)].b = b[1].b
         THEN SubSeq(a, 1, Len(a) - 1)
              \o <<[b |-> b[1].b, n |-> a[Len(a)].n + b[1].n]>>
              \o Tail(b)
         ELSE a \o b

\* the first k bytes of s
RECURSIVE BTake(_, _)
BTake(s, k) ==
    IF k = 0 \/ s = <<>> THEN <<>>
    ELSE IF s[1].n <= k THEN <<s[1]>> \o BTake(Tail(s), k - s[1].n)
    ELSE <<[b |-> s[1].b, n |-> k]>>

\* s without its first k bytes
RECURSIVE BDrop(_, _)
BDrop(s, k) ==
    IF k = 0 \/ s = <<>> THEN s
    ELSE IF s[1].n <= k THEN BDrop(Tail(s), k - s[1].n)
    ELSE <<[b |-> s[1].b, n |-> s[1].n - k]>> \o Tail(s)

\* byte i of s, from 0
RECURSIVE BAt(_, _)
BAt(s, i) == IF i < s[1].n THEN s[1].b ELSE BAt(Tail(s), i - s[1].n)

(***************************************************************************)
(* Messages and their JSON text.  serde_json is kept to what the codec     *)
(* depends on: a text has a byte length, a text parses back to the value   *)
(* it was written from, and a cut or empty text does not parse.  A unit    *)
(* variant is its tag byte; a variant with a name is its tag byte and the  *)
(* name between quotes.  A name is k letters "a".                          *)
(***************************************************************************)
NoName == -1
Quote == 34
LetterA == 97
UnitKinds == {"Ping", "Pong", "Done"}
NamedKinds == {"Start", "Stop"}
TagOf(kind) ==
    CASE kind = "Ping" -> 1 [] kind = "Pong" -> 2 [] kind = "Done" -> 3
      [] kind = "Start" -> 4 [] kind = "Stop" -> 5
\* name lengths: texts of 3, 4, 65535 and 65536 bytes
NameLens == {0, 1, 65532, 65533}
Messages ==
    [kind : {"Pong", "Done"}, name : {NoName}]
        \cup [kind : {"Start"}, name : NameLens]

\* json::to_string(&msg)
ToJson(msg) ==
    IF msg.name = NoName THEN Rep(TagOf(msg.kind), 1)
    ELSE BCat(BCat(Rep(TagOf(msg.kind), 1), Rep(Quote, 1)),
              BCat(Rep(LetterA, msg.name), Rep(Quote, 1)))

\* what is not a message: a text that does not parse, no message at all
JsonError == [kind |-> "error", name |-> NoName]
NoMsg == [kind |-> "none", name |-> NoName]

\* json::from_slice(&buf): the value, or JsonError
FromJson(buf) ==
    LET len == BLen(buf) IN
    IF len = 0 THEN JsonError
    ELSE IF \E k \in UnitKinds : buf = Rep(TagOf(k), 1)
         THEN [kind |-> CHOOSE k \in UnitKinds : buf = Rep(TagOf(k), 1),
               name |-> NoName]
    ELSE IF /\ len >= 3
            /\ \E k \in NamedKinds : BAt(buf, 0) = TagOf(k)
            /\ BAt(buf, 1) = Quote
            /\ BAt(buf, len - 1) = Quote
            /\ BTake(BDrop(buf, 2), len - 3) = Rep(LetterA, len - 3)
         THEN [kind |-> CHOOSE k \in NamedKinds : BAt(buf, 0) = TagOf(k),
               name |-> len - 3]
    ELSE JsonError

(***************************************************************************)
(* ClientTransportCodec                                                    *)
(***************************************************************************)
\* msg_ref.len() as u16
AsU16(n) == n % U16

\* BufMut::put_u16_be
PutU16BE(dst, v) == BCat(dst, BCat(Rep(v \div 256, 1), Rep(v % 256, 1)))

\* BigEndian::read_u16
ReadU16BE(src) == BAt(src, 0) * 256 + BAt(src, 1)

\* Encoder::encode
encode(msg, dst) ==
    LET text == ToJson(msg)
    IN BCat(PutU16BE(dst, AsU16(BLen(text))), text)

\* a slip: the length prefix is split off before the payload is known to be there
decodeEager(src) ==
    IF BLen(src) < 2 THEN [res |-> "None", msg |-> NoMsg, src |-> src]
    ELSE LET size == ReadU16BE(src)
             s1 == BDrop(src, 2)
         IN IF BLen(s1) >= size
            THEN LET buf == BTake(s1, size)
                     s2 == BDrop(s1, size)
                     v == FromJson(buf)
                 IN IF v = JsonError
                    THEN [res |-> "Err", msg |-> NoMsg, src |-> s2]
                    ELSE [res |-> "Some", msg |-> v, src |-> s2]
            ELSE [res |-> "None", msg |-> NoMsg, src |-> s1]

\* Decoder::decode: Ok(None), Ok(Some(msg)) or Err, and src after the call
decode(src) ==
    IF BLen(src) < 2 THEN [res |-> "None", msg |-> NoMsg, src |-> src]
    ELSE LET size == ReadU16BE(src) IN
         IF BLen(src) >= size + 2
         THEN LET s1 == BDrop(src, 2)
                  buf == BTake(s1, size)
                  s2 == BDrop(s1, size)
                  v == FromJson(buf)
              IN IF v = JsonError
                 THEN [res |-> "Err", msg |-> NoMsg, src |-> s2]
                 ELSE [res |-> "Some", msg |-> v, src |-> s2]
         ELSE [res |-> "None", msg |-> NoMsg, src |-> src]

(***************************************************************************)
(* The codec on a connection: a writer encodes messages onto the wire, the *)
(* reader is the loop of read_response, called again after every result.   *)
(***************************************************************************)
\* messages written in a run
MaxMsgs == 2
\* reads of the connection in a run
MaxReads == 5

\* what one stream.read may return of the w bytes waiting
ReadSizes(w) == {n \in {1, 2, 3, 4, 65535, 65537, w} : 1 <= n /\ n <= w}

\* send_command: encode into a fresh buffer, write_all
CEncode ==
    /\ cpc = "open"
    /\ Len(outbox) < MaxMsgs
    /\ \E msg \in Messages :
          /\ wire' = BCat(wire, encode(msg, <<>>))
          /\ outbox' = Append(outbox, msg)
    /\ UNCHANGED <<cbuf, inbox, reads, cpc, wvars, rvars>>

\* the peer closes the connection
CClose ==
    /\ cpc = "open"
    /\ cpc' = "closed"
    /\ UNCHANGED <<cbuf, wire, inbox, outbox, reads, wvars, rvars>>

\* a slip: the test of n == 0 is missing, the loop reads again after the close
ReadTurnLoopsOnEof(n) ==
    LET buf == BCat(cbuf, BTake(wire, n))
        d == decode(buf)
    IN /\ wire' = BDrop(wire, n)
       /\ reads' = reads + 1
       /\ cbuf' = d.src
       /\ CASE d.res = "Some" ->
                  /\ inbox' = Append(inbox, [res |-> "Ok", msg |-> d.msg])
                  /\ cpc' = cpc
            [] d.res = "Err" ->
                  /\ inbox' = Append(inbox, [res |-> "ErrJson", msg |-> NoMsg])
                  /\ cpc' = "done"
            [] OTHER ->
                  /\ inbox' = inbox
                  /\ cpc' = cpc
       /\ UNCHANGED <<outbox, wvars, rvars>>

\* read_response, one turn of its loop after stream.read returned Ok(n):
\* advance_mut(n), decode, return or loop
ReadTurn(n) ==
    LET buf == BCat(cbuf, BTake(wire, n))
        d == decode(buf)
    IN /\ wire' = BDrop(wire, n)
       /\ reads' = reads + 1
       /\ cbuf' = d.src
       /\ CASE d.res = "Some" ->
                  /\ inbox' = Append(inbox, [res |-> "Ok", msg |-> d.msg])
                  /\ cpc' = cpc
            [] d.res = "Err" ->
                  /\ inbox' = Append(inbox, [res |-> "ErrJson", msg |-> NoMsg])
                  /\ cpc' = "done"
            [] d.res = "None" /\ n = 0 ->
                  /\ inbox' = Append(inbox, [res |-> "ErrClosed", msg |-> NoMsg])
                  /\ cpc' = "done"
            [] OTHER ->
                  /\ inbox' = inbox
                  /\ cpc' = cpc
       /\ UNCHANGED <<outbox, wvars, rvars>>

\* stream.read returns some of the bytes waiting
CRead ==
    /\ cpc \in {"open", "closed"}
    /\ reads < MaxReads
    /\ \E n \in ReadSizes(BLen(wire)) : ReadTurn(n)

\* stream.read returns Ok(0): the peer closed and nothing is left to read
CReadEof ==
    /\ cpc = "closed"
    /\ wire = <<>>
    /\ reads < MaxReads
    /\ ReadTurn(0)

CNext ==
    \/ CEncode
    \/ CClose
    \/ CRead
    \/ CReadEof

\* where a frame of len bytes may be cut
CutSizes(len) == {k \in {1, 2, 3, len - 1} : 1 <= k /\ k < len}

\* the peer closes the connection in the middle of a frame, one more
\* message it set out to write: the first k bytes of the frame are written,
\* the rest never is
CCloseCut ==
    /\ cpc = "open"
    /\ Len(outbox) < MaxMsgs
    /\ \E msg \in Messages :
          LET frame == encode(msg, <<>>) IN
          \E k \in CutSizes(BLen(frame)) :
              wire' = BCat(wire, BTake(frame, k))
    /\ cpc' = "closed"
    /\ UNCHANGED <<cbuf, inbox, outbox, reads, wvars, rvars>>

CloseNext ==
    \/ CNext
    \/ CCloseCut

(***************************************************************************)
(* run: the operator client's exchange with the master.  The connection is *)
(* seen through what read_response returns to try_read_response: a         *)
(* response, or an error by its kind.                                      *)
(***************************************************************************)
\* Pong frames read in one exchange
MaxPongs == 3
\* let mut retry = 5
Retries == 5

\* ClientCommand
ClientCommands ==
    {"Start", "Pause", "Resume", "Reload", "Restart", "Stop", "Status", "SPid",
     "Pid", "Quit", "Version", "VersionCheck"}

\* MasterResponse, by the arms of run's match
ResponseKinds ==
    {"Pong", "Done", "Pid", "Version", "ServiceStarted", "ServiceStopped",
     "ServiceStatus", "ServiceWorkerPids", "ServiceFailed", "ErrorNotReady",
     "ErrorUnknownService", "ErrorServiceStarting", "ErrorServiceReloading",
     "ErrorServiceStopping"}

\* what read_response returns: Ok(resp), where match tells of a Version
\* whether ver.ends_with(PKG_INFO.version), or Err(e) by e.kind()
Outcomes ==
    [res : {"Ok"}, kind : ResponseKinds \ {"Version"}, match : {FALSE}]
        \cup [res : {"Ok"}, kind : {"Version"}, match : BOOLEAN]
        \cup [res : {"TimedOut", "WouldBlock", "Other"}, kind : {"none"},
               match : {FALSE}]
NoOutcome == [res |-> "none", kind |-> "none", match |-> FALSE]

\* try_read_response, one turn of its loop on what read_response returned:
\* it returns Ok or Err, or loops with the retry it is left with
try_read_response(r, o) ==
    CASE o.res = "Ok" -> [ret |-> "Ok", retry |-> r]
      [] o.res = "TimedOut" ->
            [ret |-> "Loop", retry |-> IF r > 0 THEN r - 1 ELSE r]
      [] o.res = "WouldBlock" -> [ret |-> "Loop", retry |-> r]
      [] OTHER -> [ret |-> "Err", retry |-> r]

\* a slip: a Pong ends the exchange as Done does
runMatchPongEnds(cmd, o) ==
    CASE o.kind \in {"Pong", "Done", "Pid"} -> "true"
      [] o.kind = "Version" ->
            IF cmd = "VersionCheck"
            THEN (IF o.match THEN "true" ELSE "false")
            ELSE "true"
      [] o.kind \in {"ServiceStarted", "ServiceStopped", "ServiceStatus",
                     "ServiceWorkerPids"} -> "true"
      [] OTHER -> "false"

\* run, the match on a response read in the loop "read response": the value
\* returned, or "loop"
runMatch(cmd, o) ==
    CASE o.kind = "Pong" -> "loop"
      [] o.kind \in {"Done", "Pid"} -> "true"
      [] o.kind = "Version" ->
            IF cmd = "VersionCheck"
            THEN (IF o.match THEN "true" ELSE "false")
            ELSE "true"
      [] o.kind \in {"ServiceStarted", "ServiceStopped", "ServiceStatus",
                     "ServiceWorkerPids"} -> "true"
      [] OTHER -> "false"

\* UnixStream::connect, then send_command(Ping), whose result is dropped
RunConnect ==
    /\ rpc = "connect"
    /\ \E ok \in BOOLEAN :
          IF ok
          THEN /\ rpc' = "ping" /\ retry' = Retries /\ result' = result
          ELSE /\ rpc' = "connect_failed" /\ result' = "false" /\ retry' = retry
    /\ UNCHANGED <<rcmd, pongs, rlast, wvars, cvars>>

\* try_read_response(..).is_ok() after the Ping, then "Send command"
RunPing ==
    /\ rpc = "ping"
    /\ \E o \in Outcomes, sent_ok \in BOOLEAN :
          LET t == try_read_response(retry, o) IN
          /\ rlast' = o
          /\ retry' = IF t.ret = "Ok" THEN Retries ELSE t.retry
          /\ CASE t.ret = "Loop" -> rpc' = rpc /\ result' = result
               [] t.ret = "Err" -> rpc' = "ping_failed" /\ result' = "false"
               [] t.ret = "Ok" /\ sent_ok -> rpc' = "response" /\ result' = result
               [] OTHER -> rpc' = "send_failed" /\ result' = "false"
    /\ UNCHANGED <<rcmd, pongs, wvars, cvars>>

\* the loop "read response": try_read_response, then the match
RunResponse ==
    /\ rpc = "response"
    /\ \E o \in Outcomes :
          LET t == try_read_response(retry, o) IN
          /\ o.kind = "Pong" => pongs < MaxPongs
          /\ rlast' = o
          /\ pongs' = IF o.kind = "Pong" THEN pongs + 1 ELSE pongs
          /\ CASE t.ret = "Loop" ->
                    rpc' = rpc /\ result' = result /\ retry' = t.retry
               [] t.ret = "Err" ->
                    rpc' = "returned" /\ result' = "false" /\ retry' = t.retry
               [] OTHER ->
                    LET v == runMatch(rcmd, o) IN
                    IF v = "loop"
                    THEN rpc' = rpc /\ result' = result /\ retry' = Retries
                    ELSE rpc' = "returned" /\ result' = v /\ retry' = t.retry
    /\ UNCHANGED <<rcmd, wvars, cvars>>

RNext ==
    \/ RunConnect
    \/ RunPing
    \/ RunResponse

(***************************************************************************)
(* The slot: Worker::new, then any events.  The codec is idle.             *)
(***************************************************************************)
Init ==
    /\ state = Initial
    /\ events = <<>>
    /\ restore_from_fail = FALSE
    /\ started = 0
    /\ restarts = 0
    /\ now = 0
    /\ nextPid = 1
    /\ spawnedAt = 0
    /\ alive = {}
    /\ sent = {}
    /\ ops = 0
    /\ cbuf = <<>>
    /\ wire = <<>>
    /\ inbox = <<>>
    /\ outbox = <<>>
    /\ reads = 0
    /\ cpc = "idle"
    /\ rcmd = "none"
    /\ rpc = "idle"
    /\ retry = 0
    /\ pongs = 0
    /\ rlast = NoOutcome
    /\ result = "none"

Next == WNext

Spec == Init /\ [][Next]_vars

(***************************************************************************)
(* The slot with well-behaved children: a child the slot waits for         *)
(* eventually reports loaded or exits, a child that was sent stop or quit  *)
(* eventually exits, and an exit is delivered once (ChildExited).          *)
(***************************************************************************)
\* the slot waits for pid to report loaded
Awaited(pid) ==
    state.tag \in {"Starting", "Reloading", "Restarting"} /\ state.p = pid

\* pid was sent stop, quit(true) or quit(false)
ToldToStop(pid) ==
    \E c \in {"stop", "quit_graceful", "quit_kill"} : <<pid, c>> \in sent

\* the awaited child reports loaded, or its exit is delivered
LoadsOrExits(pid) ==
    /\ pid \in alive
    /\ Awaited(pid)
    /\ \/ Apply(loaded(Self, pid), {})
       \/ \E err \in Errs : Apply(exited(Self, pid, err), {pid})
    /\ UNCHANGED ops

\* the exit of a child that was told to stop is delivered
ExitsWhenTold(pid) ==
    /\ pid \in alive
    /\ ToldToStop(pid)
    /\ \E err \in Errs : Apply(exited(Self, pid, err), {pid})
    /\ UNCHANGED ops

WellBehaved ==
    \A pid \in Pids :
        /\ WF_vars(LoadsOrExits(pid))
        /\ WF_vars(ExitsWhenTold(pid))

SpecLive == Init /\ [][Next]_vars /\ WellBehaved

(***************************************************************************)
(* The codec: an open connection with empty buffers.  The slot is idle.    *)
(***************************************************************************)
CInit ==
    /\ state = Initial
    /\ events = <<>>
    /\ restore_from_fail = FALSE
    /\ started = 0
    /\ restarts = 0
    /\ now = 0
    /\ nextPid = 1
    /\ spawnedAt = 0
    /\ alive = {}
    /\ sent = {}
    /\ ops = 0
    /\ cbuf = <<>>
    /\ wire = <<>>
    /\ inbox = <<>>
    /\ outbox = <<>>
    /\ reads = 0
    /\ cpc = "open"
    /\ rcmd = "none"
    /\ rpc = "idle"
    /\ retry = 0
    /\ pongs = 0
    /\ rlast = NoOutcome
    /\ result = "none"

SpecCodec == CInit /\ [][CNext]_vars

\* the codec on a connection that the peer may close in the middle of a frame
SpecClose == CInit /\ [][CloseNext]_vars

(***************************************************************************)
(* run(cmd, sock) for any command.  The slot and the codec are idle.       *)
(***************************************************************************)
RInit ==
    /\ state = Initial
    /\ events = <<>>
    /\ restore_from_fail = FALSE
    /\ started = 0
    /\ restarts = 0
    /\ now = 0
    /\ nextPid = 1
    /\ spawnedAt = 0
    /\ alive = {}
    /\ sent = {}
    /\ ops = 0
    /\ cbuf = <<>>
    /\ wire = <<>>
    /\ inbox = <<>>
    /\ outbox = <<>>
    /\ reads = 0
    /\ cpc = "idle"
    /\ rcmd \in ClientCommands
    /\ rpc = "connect"
    /\ retry = Retries
    /\ pongs = 0
    /\ rlast = NoOutcome
    /\ result = "none"

SpecRun == RInit /\ [][RNext]_vars

(***************************************************************************)
(* Properties of the worker slot, checked under Spec.                      *)
(***************************************************************************)
LastEvent == events[Len(events)]
LastOf(evs) == evs[Len(evs)]
Overlap == {"Reloading", "Restarting", "StoppingOld"}
Terminal == {"Initial", "Stopped", "Failed"}

\* C1: in every reachable state the slot tracks 0, 1 or 2 child pids, and 2
\* only in Reloading, Restarting or StoppingOld: none in Initial, Stopped
\* and Failed, one in Starting, Running and Stopping, two distinct pids in
\* the three overlap states.
C1_TrackedPids ==
    LET k == Cardinality(TrackedPids(state)) IN
    /\ k \in {0, 1, 2}
    /\ k = 2 => state.tag \in Overlap
    /\ state.tag \in Terminal => k = 0
    /\ state.tag \in {"Starting", "Running", "Stopping"} => k = 1 /\ state.old = NoPid
    /\ state.tag \in Overlap => k = 2

\* a stop arrived during an overlap: the slot waits for the old process alone
C1_Witness ==
    /\ state.tag = "Stopping"
    /\ Len(events) >= 4
    /\ events[Len(events) - 1].state \in {"Reloading", "Restarting"}
    /\ LastEvent.state = "Stopping"
    /\ Cardinality(alive) = 2

\* C2: stop leaves the slot in Stopping or Stopped.  In Stopping(c) the exit
\* of c, whatever its classification, puts the slot in Stopped, appends a
\* Stopped event carrying c and spawns nothing, and every other event of a
\* child leaves the slot as it is.  In Stopped the last event of the ring is
\* a Stopped event, and loaded, exited, message, pause and resume change
\* nothing and spawn nothing: only start or reload spawn again.
C2_StopEndsStopped ==
    /\ stop(Self, OpReason).state.tag \in {"Stopping", "Stopped"}
    /\ stop(Self, OpReason).nextPid = nextPid
    /\ state.tag = "Stopping" =>
          /\ \A err \in Errs :
                LET w == exited(Self, state.p, err) IN
                /\ w.state = Stopped
                /\ LastOf(w.events).state = "Stopped"
                /\ LastOf(w.events).pid = state.p
                /\ Len(w.events) = Len(events) + 1
                /\ w.nextPid = nextPid
          /\ \A pid \in Pids \ {state.p}, err \in Errs :
                exited(Self, pid, err) = Self
          /\ \A pid \in Pids : loaded(Self, pid) = Self
    /\ state.tag = "Stopped" =>
          /\ Len(events) > 0 /\ LastEvent.state = "Stopped"
          /\ \A pid \in Pids :
                /\ loaded(Self, pid) = Self
                /\ \A err \in Errs : exited(Self, pid, err) = Self
                /\ \A msg \in Msgs : message(Self, pid, msg) = Self
          /\ pause(Self, OpReason) = Self
          /\ resume(Self, OpReason) = Self
          /\ stop(Self, OpReason).nextPid = nextPid
          /\ quit(Self, OpReason).nextPid = nextPid

\* start, stop while the child is up, and the child's exit delivered
C2_Witness ==
    /\ state = Stopped
    /\ Len(events) >= 3
    /\ events[1].state = "Starting"
    /\ events[Len(events) - 1].state = "Stopping"
    /\ LastEvent.state = "Stopped"
    /\ LastEvent.pid = events[Len(events) - 1].pid
    /\ alive = {}

\* the Stopped events of a ring that carry pid
StoppedEvents(evs, pid) ==
    {i \in DOMAIN evs : evs[i].state = "Stopped" /\ evs[i].pid = pid}

\* C3: graceful reload with a well-behaved child.  From Running(old) a
\* graceful reload spawns new and enters Reloading(new, old) with no command
\* sent; when new reports loaded, old is told to stop, new to start, and the
\* slot is in StoppingOld(new, old); when old's exit is delivered the slot is
\* in Running(new) and the ring holds exactly one Stopped event carrying old.
C3_GracefulReload ==
    /\ state.tag = "Running" =>
          LET w == reload(Self, TRUE, OpReason) IN
          /\ w.state = Reloading(nextPid, state.p)
          /\ w.nextPid = nextPid + 1
          /\ w.cmds = <<>>
    /\ state.tag = "Reloading" =>
          LET w == loaded(Self, state.p) IN
          /\ w.state = StoppingOld(state.p, state.old)
          /\ w.cmds = << <<state.old, "stop">>, <<state.p, "start">> >>
    /\ state.tag = "StoppingOld" =>
          \A err \in Errs :
             LET w == exited(Self, state.old, err) IN
             /\ w.state = Running(state.p)
             /\ Cardinality(StoppedEvents(w.events, state.old)) = 1
             /\ w.nextPid = nextPid

\* the run start, loaded, reload(graceful), loaded, exit of the old child
C3_Witness ==
    /\ state = Running(2)
    /\ events = << [state |-> "Starting", reason |-> OpReason, pid |-> 1],
                   [state |-> "Running", reason |-> "None", pid |-> 1],
                   [state |-> "Reloading", reason |-> OpReason, pid |-> 1],
                   [state |-> "StoppingOld", reason |-> "None", pid |-> 1],
                   [state |-> "Stopped", reason |-> "None", pid |-> 1],
                   [state |-> "Running", reason |-> "None", pid |-> 2] >>
    /\ <<1, "stop">> \in sent
    /\ alive = {2}

\* the index of the last Starting event an operator start appended, or 0
LastOpStart ==
    LET S == {i \in DOMAIN events :
                 events[i].state = "Starting" /\ events[i].reason = OpReason}
    IN IF S = {} THEN 0 ELSE CHOOSE i \in S : \A j \in S : j <= i

\* since the operator's start every child exited non-zero before it loaded:
\* the ring from that start on is Starting, Failed, Starting, Failed, ...
BootFailuresSince(i) ==
    /\ i > 0
    /\ (Len(events) - i + 1) % 2 = 0
    /\ \A j \in i..Len(events) :
          IF (j - i) % 2 = 0
          THEN /\ events[j].state = "Starting"
               /\ j > i => events[j].reason = "RestartFailedStartingWorker"
          ELSE /\ events[j].state = "Failed"
               /\ events[j].reason = "ExitCode1"
               /\ events[j].pid = events[j - 1].pid

\* C4: restart budget.  When the slot was started by the operator, every
\* child since exited non-zero before reporting loaded and the slot is in
\* Failed, exactly R children were spawned since that start: the ring holds
\* R Starting/Failed pairs from the start on.
C4_RestartBudget ==
    (state.tag = "Failed" /\ BootFailuresSince(LastOpStart))
        => Len(events) - LastOpStart + 1 = 2 * R

\* C5: fast-restart debounce.  When the child a Starting slot waits for has
\* been up for more than 10s (the replacement child of a Reloading or
\* Restarting slot: more than 3s), its exit resets restarts to 0, whatever
\* the exit's classification.
C5_Debounce ==
    \A err \in Errs :
        /\ (state.tag = "Starting" /\ now - spawnedAt > FastStarting)
              => exited(Self, state.p, err).restarts = 0
        /\ (state.tag \in {"Reloading", "Restarting"}
                /\ now - spawnedAt > FastReloading)
              => exited(Self, state.p, err).restarts = 0

\* the index of the last Reloading or Restarting event, or 0
LastReplaceBegin ==
    LET S == {i \in DOMAIN events : events[i].state \in {"Reloading", "Restarting"}}
    IN IF S = {} THEN 0 ELSE CHOOSE i \in S : \A j \in S : j <= i

\* the slot has just fallen back to the old process, and every replacement
\* child of this reload or restart exited non-zero
FellBack ==
    /\ state.tag = "Running"
    /\ Len(events) > 0
    /\ LastEvent.state = "Running" /\ LastEvent.reason = "RestoreAftreFailed"
    /\ LastReplaceBegin > 0
    /\ \A j \in (LastReplaceBegin + 1)..(Len(events) - 1) :
          /\ events[j].state \in {"ReloadFailed", "RestartFailed"}
          /\ events[j].reason = "ExitCode1"

\* C6: failed reload fallback.  When a reload or restart begun from
\* Running(old) has fallen back, every replacement child having exited
\* non-zero, exactly R attempts failed: the ring holds R ReloadFailed
\* (RestartFailed) events between the begin of the reload and the final
\* Running/RestoreAfterFailed event, which carries old's pid; the slot is in
\* Running(old) with restore_from_fail set, and old was sent no stop or quit.
C6_FailedReloadFallback ==
    FellBack =>
        /\ Len(events) - 1 - LastReplaceBegin = R
        /\ \A j \in (LastReplaceBegin + 1)..(Len(events) - 1) :
              events[j].state =
                 (IF events[LastReplaceBegin].state = "Reloading"
                  THEN "ReloadFailed" ELSE "RestartFailed")
        /\ restore_from_fail
        /\ state.p = events[LastReplaceBegin].pid
        /\ LastEvent.pid = state.p
        /\ \A c \in {"stop", "quit_graceful", "quit_kill"} : <<state.p, c>> \notin sent

\* C7: stop mid-reload.  In Reloading(new, old) or Restarting(new, old) a
\* stop sends quit(graceful=true) to new and stop to old and nothing else,
\* and moves the slot to Stopping(old); from there the exit of old puts the
\* slot in Stopped, and a loaded or exited event of new changes nothing,
\* neither while the slot waits for old nor once it is Stopped.
C7_StopMidReload ==
    state.tag \in {"Reloading", "Restarting"} =>
        LET w == stop(Self, OpReason) IN
        /\ w.cmds = << <<state.p, "quit_graceful">>, <<state.old, "stop">> >>
        /\ w.state = Stopping(state.old)
        /\ w.nextPid = nextPid
        /\ loaded(w, state.p) = w
        /\ \A err \in Errs :
              /\ exited(w, state.p, err) = w
              /\ LET w2 == exited(w, state.old, err) IN
                 /\ w2.state = Stopped
                 /\ w2.cmds = w.cmds
                 /\ w2.nextPid = nextPid
                 /\ loaded(w2, state.p) = w2
                 /\ \A e2 \in Errs : exited(w2, state.p, e2) = w2

\* a stop arrived in Reloading(2, 1), the old child exited, then the new one
C7_Witness ==
    /\ state = Stopped
    /\ Len(events) = 5
    /\ events[3].state \in {"Reloading", "Restarting"}
    /\ events[4] = [state |-> "Stopping", reason |-> OpReason, pid |-> 1]
    /\ events[5].state = "Stopped" /\ events[5].pid = 1
    /\ <<2, "quit_graceful">> \in sent
    /\ <<1, "stop">> \in sent
    /\ <<2, "start">> \notin sent
    /\ alive = {}

\* C10: at every instant at most two children spawned for the slot are
\* alive, the children the slot no longer tracks included.
C10_AtMostTwoAlive == Cardinality(alive) <= 2

\* the Running process is the old process a failed reload or restart fell
\* back to: the ring holds the Running/RestoreAfterFailed event of its pid,
\* followed by nothing but the operator's pauses and resumes
KeptAfterFailedReplace ==
    \E i \in DOMAIN events :
        /\ events[i].state = "Running"
        /\ events[i].reason = "RestoreAftreFailed"
        /\ events[i].pid = state.p
        /\ \A j \in (i + 1)..Len(events) :
              /\ events[j].state \in {"Paused", "Running"}
              /\ events[j].reason = OpReason

\* C11: in every reachable state restore_from_fail is true if and only if
\* the slot is in Running(p) and p is the old process kept alive after a
\* reload or restart attempt used up its retries.
C11_RestoreFromFail ==
    restore_from_fail <=> (state.tag = "Running" /\ KeptAfterFailedReplace)

\* C11 as amended: in every reachable state in which the slot is in
\* Running(p), restore_from_fail is true if and only if p is the old process
\* kept alive after a reload or restart attempt used up its retries.
C11_RestoreFromFailInRunning ==
    state.tag = "Running" => (restore_from_fail <=> KeptAfterFailedReplace)

\* the slot fell back to the old process and the flag is set
C11_Witness ==
    /\ state.tag = "Running"
    /\ restore_from_fail
    /\ KeptAfterFailedReplace
    /\ LastEvent.reason = "RestoreAftreFailed"

\* the results of every call the slot may receive in the current state
Calls ==
    {start(Self, OpReason), stop(Self, OpReason), quit(Self, OpReason),
     pause(Self, OpReason), resume(Self, OpReason)}
        \cup {reload(Self, g, OpReason) : g \in BOOLEAN}
        \cup {loaded(Self, pid) : pid \in Pids}
        \cup {message(Self, pid, msg) : pid \in Pids, msg \in Msgs}
        \cup {exited(Self, pid, err) : pid \in Pids, err \in Errs}

\* the ring new is the ring old with k events appended, the oldest dropped
\* where the ring was full
Appended(old, new, k) ==
    /\ Len(new) >= k
    /\ LET kept == Len(new) - k IN
       /\ kept <= Len(old)
       /\ SubSeq(new, 1, kept) = SubSeq(old, Len(old) - kept + 1, Len(old))
       /\ kept < Len(old) => Len(new) = EventsCap

\* C12: the event ring is a log of every transition.  Every call that
\* changes the state variant or the set of pids the state tracks appends at
\* least one event in the same step, and a call only ever appends: the
\* events already in the ring stay, in their order, before the new ones.
C12_RingLogsTransitions ==
    \A w \in Calls :
        /\ \E k \in 0..3 : Appended(events, w.events, k)
        /\ (w.state.tag # state.tag \/ TrackedPids(w.state) # TrackedPids(state))
              => \E k \in 1..3 : Appended(events, w.events, k)

\* a replacement child died and was replaced during a reload: the pids
\* tracked changed, the state variant did not, and the ring tells
C12_Witness ==
    /\ state.tag = "Reloading"
    /\ state.p = 3
    /\ Len(events) = 4
    /\ events[3].state = "Reloading"
    /\ events[4].state = "ReloadFailed" /\ events[4].pid = 2

\* C13: restarts < R gates any automatic respawn.  Whenever the delivery of
\* a child's exit spawns a child, restarts < R holds when it is spawned.
C13_RespawnGated ==
    \A pid \in alive, err \in Errs :
        LET w == exited(Self, pid, err) IN
        w.nextPid > nextPid => w.restarts < R

\* C14: an operator start, reload or stop always resets the restart budget.
\* Whenever the slot leaves Failed or Stopped through start, through reload
\* or through stop followed by start, restarts is 0 when the new child is
\* spawned.
C14_StartResetsBudget ==
    state.tag \in {"Failed", "Stopped"} =>
        /\ start(Self, OpReason).state.tag = "Starting"
        /\ start(Self, OpReason).restarts = 0
        /\ \A g \in BOOLEAN : reload(Self, g, OpReason).restarts = 0
        /\ start(stop(Self, OpReason), OpReason).restarts = 0

\* C15: whenever the slot is in Running(c), c has reported loaded and has
\* been sent the start command (the supervisor sends start when it accepts
\* a child's loaded, and only then); in Reloading(new, old) and
\* Restarting(new, old) the new child has not been sent start.
C15_RunningIsLoaded ==
    /\ state.tag = "Running" => <<state.p, "start">> \in sent
    /\ state.tag \in {"Reloading", "Restarting"} => <<state.p, "start">> \notin sent

\* C16: Failed and Stopped are left only by explicit operator action.  In
\* Failed or Stopped the events loaded, message, exited, pause and resume,
\* for any pid and any payload, change no field, append no event and spawn
\* no child; start and reload spawn exactly one child and enter Starting,
\* and stop and quit spawn none.
C16_TerminalLeftByOperator ==
    state.tag \in {"Failed", "Stopped"} =>
        /\ \A pid \in Pids :
              /\ loaded(Self, pid) = Self
              /\ \A msg \in Msgs : message(Self, pid, msg) = Self
              /\ \A err \in Errs : exited(Self, pid, err) = Self
        /\ pause(Self, OpReason) = Self
        /\ resume(Self, OpReason) = Self
        /\ \A w \in {start(Self, OpReason)} \cup {reload(Self, g, OpReason) : g \in BOOLEAN} :
              /\ w.nextPid = nextPid + 1
              /\ w.state = Starting(nextPid)
        /\ \A w \in {stop(Self, OpReason), quit(Self, OpReason)} :
              /\ w.nextPid = nextPid
              /\ w.state = Stopped

\* the slot is Failed or Stopped while a child it no longer tracks is alive
\* and may still report
C16_Witness ==
    /\ state.tag \in {"Failed", "Stopped"}
    /\ alive # {}
    /\ Len(events) >= 4

\* C17: a message from a child changes the slot only in Running(c) and only
\* when it comes from c.  Then reload spawns one child n, appends a Reloading
\* event with reason WorkerRequest carrying c and enters Reloading(n, c), as
\* reload(graceful=true, WorkerRequest) does; restart does the same with
\* Restarting, as reload(graceful=false, WorkerRequest) does; and from there
\* the loaded of n and the exit of c take the slot to Running(n).  In every
\* other state, for every other pid and for every other message kind the
\* call changes nothing.
C17_ChildMessage ==
    \A pid \in Pids, msg \in Msgs :
        LET w == message(Self, pid, msg) IN
        IF state.tag = "Running" /\ state.p = pid /\ msg \in {"reload", "restart"}
        THEN LET tag == IF msg = "reload" THEN "Reloading" ELSE "Restarting" IN
             /\ w.state = [tag |-> tag, p |-> nextPid, old |-> pid]
             /\ w.nextPid = nextPid + 1
             /\ w.events = EventsAdd(events, tag, "WorkerRequest", pid)
             /\ w.cmds = <<>>
             /\ w.restarts = restarts
             /\ w.restore_from_fail = restore_from_fail
             /\ \A err \in Errs :
                   exited(loaded(w, nextPid), pid, err).state = Running(nextPid)
        ELSE w = Self

\* the running child asked for a restart, the new child loaded, the old exited
C17_Witness ==
    /\ state = Running(2)
    /\ Len(events) = 6
    /\ events[3] = [state |-> "Restarting", reason |-> "WorkerRequest", pid |-> 1]
    /\ events[4].state = "StoppingOld"
    /\ events[6] = [state |-> "Running", reason |-> "None", pid |-> 2]
    /\ <<1, "quit_graceful">> \in sent
    /\ <<2, "start">> \in sent

\* the commands that end a process
StopCmds == {"stop", "quit_graceful", "quit_kill"}

\* the commands of a call that went to pid
CmdsTo(w, pid) == {w.cmds[i][2] : i \in {j \in DOMAIN w.cmds : w.cmds[j][1] = pid}}

\* C19: overlap ordering.  While a reload or restart begun from Running(old)
\* waits for the new process, old has been sent no stop or quit, and no call
\* but the operator's stop or quit and the loaded of new sends it one.  The
\* loaded of new tells old to stop and new to start in the same step, and
\* the exit of old then leaves the ring ending StoppingOld, Stopped(old),
\* Running(new).
C19_OverlapOrdering ==
    state.tag \in {"Reloading", "Restarting"} =>
        /\ \A c \in StopCmds : <<state.old, c>> \notin sent
        /\ \A w \in Calls \ {stop(Self, OpReason), quit(Self, OpReason),
                              loaded(Self, state.p)} :
              CmdsTo(w, state.old) \cap StopCmds = {}
        /\ LET w == loaded(Self, state.p) IN
           /\ Len(w.cmds) = 2
           /\ w.cmds[1][1] = state.old /\ w.cmds[1][2] \in {"stop", "quit_graceful"}
           /\ w.cmds[2] = <<state.p, "start">>
           /\ LastOf(w.events) = [state |-> "StoppingOld", reason |-> "None",
                                   pid |-> state.old]
           /\ \A err \in Errs :
                 LET w2 == exited(w, state.old, err)
                     n == Len(w2.events)
                 IN /\ w2.events[n - 2] = LastOf(w.events)
                    /\ w2.events[n - 1] = [state |-> "Stopped", reason |-> "None",
                                            pid |-> state.old]
                    /\ w2.events[n] = [state |-> "Running", reason |-> "None",
                                        pid |-> state.p]

\* an operator restart ran its course: the ring ends StoppingOld,
\* Stopped(1), Running(2)
C19_Witness ==
    /\ state = Running(2)
    /\ Len(events) = 6
    /\ events[3] = [state |-> "Restarting", reason |-> OpReason, pid |-> 1]
    /\ events[4].state = "StoppingOld"
    /\ events[5] = [state |-> "Stopped", reason |-> "None", pid |-> 1]
    /\ events[6] = [state |-> "Running", reason |-> "None", pid |-> 2]
    /\ <<2, "start">> \in sent

\* C20: loaded(pid) from the child the slot waits for.  In Reloading(n, o)
\* the old process is sent stop, in Restarting(n, o) it is sent quit(true)
\* and no stop; in both n is sent start, restarts becomes 0 and the slot
\* enters StoppingOld(n, o).  In Starting(c), c is sent start and the slot
\* enters Running(c).
C20_Loaded ==
    LET w == loaded(Self, state.p) IN
    /\ state.tag = "Reloading" =>
          /\ w.cmds = << <<state.old, "stop">>, <<state.p, "start">> >>
          /\ w.restarts = 0
          /\ w.state = StoppingOld(state.p, state.old)
    /\ state.tag = "Restarting" =>
          /\ w.cmds = << <<state.old, "quit_graceful">>, <<state.p, "start">> >>
          /\ w.restarts = 0
          /\ w.state = StoppingOld(state.p, state.old)
    /\ state.tag = "Starting" =>
          /\ w.cmds = << <<state.p, "start">> >>
          /\ w.state = Running(state.p)

\* the second replacement of a restart loaded: the old process was told to
\* quit, and the failure counted before is forgotten
C20_Witness ==
    /\ state = StoppingOld(3, 1)
    /\ Len(events) = 5
    /\ events[4].state = "RestartFailed"
    /\ events[5].state = "StoppingOld"
    /\ restarts = 0
    /\ <<1, "quit_graceful">> \in sent
    /\ <<1, "stop">> \notin sent
    /\ <<3, "start">> \in sent

\* C21: start spawns exactly one child and enters Starting when the slot is
\* in Initial, Stopped or Failed, appending a Starting event and sending no
\* command; in every other state it changes nothing and spawns nothing, so
\* a second start never creates a second child.
C21_Start ==
    LET w == start(Self, OpReason) IN
    IF state.tag \in Terminal
    THEN /\ w.nextPid = nextPid + 1
         /\ w.state = Starting(nextPid)
         /\ w.events = EventsAdd(events, "Starting", OpReason, nextPid)
         /\ w.cmds = <<>>
         /\ start(w, OpReason) = w
    ELSE w = Self

\* the slot failed and was started again by the operator
C21_Witness ==
    /\ state = Starting(3)
    /\ Len(events) = 5
    /\ events[4].state = "Failed"
    /\ events[5] = [state |-> "Starting", reason |-> OpReason, pid |-> 3]
    /\ alive = {3}

\* C22: reload spawns a replacement only from Running(c): exactly one child
\* n, no command to c, Reloading(n, c) when graceful and Restarting(n, c)
\* when not.  In Initial, Starting, Reloading, Restarting, StoppingOld and
\* Stopping it changes nothing and spawns nothing.  In Stopped and Failed it
\* behaves as start does.
C22_Reload ==
    \A g \in BOOLEAN :
        LET w == reload(Self, g, OpReason) IN
        CASE state.tag = "Running" ->
                /\ w.nextPid = nextPid + 1
                /\ w.cmds = <<>>
                /\ w.state = IF g THEN Reloading(nextPid, state.p)
                                   ELSE Restarting(nextPid, state.p)
          [] state.tag \in {"Stopped", "Failed"} -> w = start(Self, OpReason)
          [] OTHER -> w = Self

\* C23: stop and quit are no-ops on a slot that is Stopping or Stopped: the
\* state, the counters and the event ring are unchanged and no command is
\* sent.
C23_StopIdempotent ==
    state.tag \in {"Stopping", "Stopped"} =>
        /\ stop(Self, OpReason) = Self
        /\ quit(Self, OpReason) = Self

\* C24: stale pids are ignored.  An exited(pid, err) whose pid the state
\* does not track, and a loaded(pid) whose pid is not the child the state
\* waits for, change no field, send no command and spawn no child.
C24_StalePids ==
    /\ \A pid \in Pids \ TrackedPids(state), err \in Errs :
          exited(Self, pid, err) = Self
    /\ \A pid \in Pids :
          ~(state.tag \in {"Starting", "Reloading", "Restarting"} /\ state.p = pid)
              => loaded(Self, pid) = Self

\* a child the slot dropped is still alive while the slot waits for another
C24_Witness ==
    /\ state.tag \in {"Starting", "Stopping"}
    /\ alive \ TrackedPids(state) # {}
    /\ TrackedPids(state) \subseteq alive

\* C25: exited(c, err) in Starting(c).  restarts and started are reset
\* (restarts = 0, started = now) exactly when err is ExitCode(0) and more
\* than 10s have passed since started; in every other case restarts grows
\* by exactly 1 and started stays.  A Failed event carrying c is appended;
\* then, if restarts < R, the slot spawns c' and is in Starting(c'), and
\* otherwise it is in Failed and has spawned nothing.
C25_ExitedStarting ==
    state.tag = "Starting" =>
        \A err \in Errs :
            LET w == exited(Self, state.p, err)
                reset == err = "ExitCode0" /\ now - started > FastStarting
                failed == [state |-> "Failed", reason |-> err, pid |-> state.p]
            IN /\ IF reset
                  THEN w.restarts = 0 /\ w.started = now
                  ELSE w.restarts = restarts + 1 /\ w.started = started
               /\ IF w.restarts < R
                  THEN /\ w.state = Starting(nextPid)
                       /\ w.nextPid = nextPid + 1
                       /\ w.events =
                             EventsAdd(EventsAdd(events, "Failed", err, state.p),
                                       "Starting", "RestartFailedStartingWorker",
                                       nextPid)
                  ELSE /\ w.state = Failed
                       /\ w.nextPid = nextPid
                       /\ w.events = EventsAdd(events, "Failed", err, state.p)

\* a first child failed at once, the second exited with code 0 after 12s:
\* the count of the first failure is forgotten and a third child is up
C25_Witness ==
    /\ state = Starting(3)
    /\ restarts = 0
    /\ started = 12
    /\ Len(events) = 5
    /\ events[4] = [state |-> "Failed", reason |-> "ExitCode0", pid |-> 2]
    /\ events[2].reason = "ExitCode1"

\* C26: exited(c, err) in Running(c).  On StartupTimeout restore_from_fail
\* is set and a hard reload is triggered: the slot spawns n and is in
\* Restarting(n, c), c kept as the old process and sent nothing.  On every
\* other error c is sent quit(false), started is reset to now, a Stopped
\* event carrying c is appended, and the slot spawns c' and is in
\* Starting(c') with reason RestartFailedRunningWorker.
C26_ExitedRunning ==
    state.tag = "Running" =>
        \A err \in Errs :
            LET w == exited(Self, state.p, err) IN
            /\ w.nextPid = nextPid + 1
            /\ IF err = "StartupTimeout"
               THEN /\ w.restore_from_fail
                    /\ w.state = Restarting(nextPid, state.p)
                    /\ w.cmds = <<>>
                    /\ LastOf(w.events) = [state |-> "Restarting",
                                            reason |-> "ReloadAftreTimeout",
                                            pid |-> state.p]
               ELSE /\ w.cmds = << <<state.p, "quit_kill">> >>
                    /\ w.started = now
                    /\ w.state = Starting(nextPid)
                    /\ w.restore_from_fail = restore_from_fail
                    /\ w.events =
                          EventsAdd(EventsAdd(events, "Stopped", err, state.p),
                                    "Starting", "RestartFailedRunningWorker",
                                    nextPid)

\* the running child timed out: a hard reload is under way, the flag is set
C26_Witness ==
    /\ state = Restarting(2, 1)
    /\ restore_from_fail
    /\ Len(events) = 4
    /\ events[3] = [state |-> "Running", reason |-> "StartupTimeout", pid |-> 1]
    /\ events[4].reason = "ReloadAftreTimeout"

\* C27: exited(c, err) in StoppingOld(c, o): o is sent quit(false), restarts
\* grows by 1, a Failed event carrying c is appended and the slot spawns c'
\* and is in Starting(c') with reason NewProcessDied.  exited(o, err) in
\* Reloading, Restarting or StoppingOld (n, o): Stopped(o) and Running(n)
\* are appended, restore_from_fail is cleared and the slot is in Running(n).
C27_ExitedOverlap ==
    state.tag \in Overlap =>
        \A err \in Errs :
            /\ state.tag = "StoppingOld" =>
                  LET w == exited(Self, state.p, err) IN
                  /\ w.cmds = << <<state.old, "quit_kill">> >>
                  /\ w.restarts = restarts + 1
                  /\ w.state = Starting(nextPid)
                  /\ w.nextPid = nextPid + 1
                  /\ w.events =
                        EventsAdd(EventsAdd(events, "Failed", err, state.p),
                                  "Starting", "NewProcessDied", nextPid)
            /\ LET w == exited(Self, state.old, err) IN
               /\ w.state = Running(state.p)
               /\ ~w.restore_from_fail
               /\ w.cmds = <<>>
               /\ w.nextPid = nextPid
               /\ w.events =
                     EventsAdd(EventsAdd(events, "Stopped", "None", state.old),
                               "Running", "None", state.p)

\* the new process died while the old one was being stopped
C27_Witness ==
    /\ state = Starting(3)
    /\ restarts = 1
    /\ LastEvent = [state |-> "Starting", reason |-> "NewProcessDied", pid |-> 3]
    /\ events[Len(events) - 1].state = "Failed"
    /\ events[Len(events) - 1].pid = 2
    /\ <<1, "quit_kill">> \in sent

\* C28: each appended event describes the outcome of its transition.
\* Whenever a call puts the slot into Starting, Running, StoppingOld,
\* Stopping or Stopped, the last event it appends carries the tag of the
\* state entered; in particular every stop or quit that enters Stopping
\* appends a Stopping event.
C28_EventTellsOutcome ==
    \A w \in Calls :
        (/\ w.state # state
         /\ w.state.tag \in {"Starting", "Running", "StoppingOld", "Stopping",
                               "Stopped"})
            => /\ w.events # events
               /\ LastOf(w.events).state = w.state.tag

\* C29: pause and resume never change the state variant, the tracked pids,
\* restarts or restore_from_fail.  In Running(c) they send pause,
\* respectively resume, to c and append one event, Paused respectively
\* Running, carrying c; in every other state they send nothing and append
\* nothing.
C29_PauseResume ==
    LET wp == pause(Self, OpReason)
        wr == resume(Self, OpReason)
    IN IF state.tag = "Running"
       THEN /\ wp = [Self EXCEPT
                        !.events = EventsAdd(events, "Paused", OpReason, state.p),
                        !.sent = sent \cup {<<state.p, "pause">>},
                        !.cmds = << <<state.p, "pause">> >>]
            /\ wr = [Self EXCEPT
                        !.events = EventsAdd(events, "Running", OpReason, state.p),
                        !.sent = sent \cup {<<state.p, "resume">>},
                        !.cmds = << <<state.p, "resume">> >>]
       ELSE wp = Self /\ wr = Self

\* the running child was paused and resumed
C29_Witness ==
    /\ state = Running(1)
    /\ Len(events) = 4
    /\ events[3] = [state |-> "Paused", reason |-> OpReason, pid |-> 1]
    /\ events[4] = [state |-> "Running", reason |-> OpReason, pid |-> 1]
    /\ <<1, "pause">> \in sent /\ <<1, "resume">> \in sent

\* C30: no slot stays in a transitional state forever.  With well-behaved
\* children (SpecLive) a slot in Starting, Reloading, Restarting,
\* StoppingOld or Stopping eventually is in Running, Stopped or Failed.
C30_LeavesTransitional ==
    (state.tag \in {"Starting", "Reloading", "Restarting", "StoppingOld", "Stopping"})
        ~> (state.tag \in {"Running", "Stopped", "Failed"})

\* C31: the restarts counter is bounded by the budget: in every reachable
\* state 0 <= restarts <= R, whatever operator commands and child exits
\* occur, so that the 16-bit counter never overflows.
C31_RestartsBounded ==
    /\ 0 <= restarts
    /\ restarts <= R

(***************************************************************************)
(* Properties of the operator client's run, checked under SpecRun.         *)
(***************************************************************************)
\* the responses the claim counts as success
SuccessKinds ==
    {"Done", "Pid", "Version", "ServiceStarted", "ServiceStopped",
     "ServiceStatus", "ServiceWorkerPids"}

\* what C18 and its amended form share: a transport error, when connecting,
\* after the Ping, when sending or in the response loop, ends run with
\* false; while run reads responses it has returned nothing, and a Pong
\* never is the response it returns on
RunFailsAndPongs ==
    /\ rpc \in {"connect_failed", "ping_failed", "send_failed"} => result = "false"
    /\ (rpc = "returned" /\ rlast.res # "Ok") => result = "false"
    /\ rpc \in {"connect", "ping", "response"} => result = "none"
    /\ rpc = "returned" => rlast.kind # "Pong"

\* C18: run returns true exactly when the final response is Done, Pid,
\* Version, ServiceStarted, ServiceStopped, ServiceStatus or
\* ServiceWorkerPids, and false for ServiceFailed, every Error response and
\* every transport error; Pong frames before the final response neither end
\* the exchange nor change the result.
C18_RunResult ==
    /\ RunFailsAndPongs
    /\ (rpc = "returned" /\ rlast.res = "Ok") =>
          (result = "true" <=> rlast.kind \in SuccessKinds)

\* C18 as amended: as C18, but a final Version response is a success for
\* version --check only when the version reported ends with the client's
\* own version, and a failure otherwise.
C18_RunResultVersionCheck ==
    /\ RunFailsAndPongs
    /\ (rpc = "returned" /\ rlast.res = "Ok") =>
          (result = "true" <=>
              /\ rlast.kind \in SuccessKinds
              /\ (rlast.kind = "Version" /\ rcmd = "VersionCheck") => rlast.match)

\* a start that streamed Pongs and then ended with ServiceStarted
C18_Witness ==
    /\ rpc = "returned"
    /\ rcmd = "Start"
    /\ pongs = MaxPongs
    /\ rlast.kind = "ServiceStarted"
    /\ result = "true"

\* the errors of a read that a silent master leaves the client with
Silent == {"TimedOut", "WouldBlock"}

\* try_read_response entered its loop with retry r and read_response fails
\* with the kinds kinds[1], kinds[2], ..: some turn returns the error
RECURSIVE GivesUp(_, _)
GivesUp(r, kinds) ==
    IF kinds = <<>>
    THEN FALSE
    ELSE LET o == [res |-> Head(kinds), kind |-> "none", match |-> FALSE]
             t == try_read_response(r, o)
         IN t.ret = "Err" \/ (t.ret = "Loop" /\ GivesUp(t.retry, Tail(kinds)))

\* C32: try_read_response terminates when the master never answers: while
\* run waits for a response, after the Ping or the command, and every read
\* fails with TimedOut or WouldBlock, try_read_response returns the error
\* once the retries it has left are used up, the 5 it starts with at most,
\* so that run returns false instead of waiting forever.
C32_GivesUpOnSilence ==
    rpc \in {"ping", "response"} =>
        \A kinds \in [1..(retry + 1) -> Silent] : GivesUp(retry, kinds)

(***************************************************************************)
(* Properties of the frame codec, checked under SpecCodec.                 *)
(***************************************************************************)
\* C8: frame codec round-trip.  For every message written, the frame is the
\* 16-bit big-endian byte length of the JSON text followed by the text, and
\* decoding the frame yields the message and consumes the whole frame,
\* texts longer than 65535 bytes included.
C8_RoundTrip ==
    \A i \in DOMAIN outbox :
        LET text == ToJson(outbox[i])
            frame == encode(outbox[i], <<>>)
            d == decode(frame)
        IN /\ ReadU16BE(frame) = BLen(text)
           /\ BDrop(frame, 2) = text
           /\ d.res = "Some"
           /\ d.msg = outbox[i]
           /\ d.src = <<>>

\* the results of decoding a byte string delivered whole: decode is called
\* until it needs more or fails
RECURSIVE WholeDecode(_)
WholeDecode(s) ==
    LET d == decode(s) IN
    CASE d.res = "Some" -> <<[res |-> "Ok", msg |-> d.msg]>> \o WholeDecode(d.src)
      [] d.res = "Err" -> <<[res |-> "ErrJson", msg |-> NoMsg]>>
      [] OTHER -> <<>>

\* the bytes written on the connection so far
RECURSIVE EncodeAll(_)
EncodeAll(msgs) ==
    IF msgs = <<>> THEN <<>>
    ELSE encode(LastOf(msgs), EncodeAll(SubSeq(msgs, 1, Len(msgs) - 1)))

IsPrefix(a, b) == Len(a) <= Len(b) /\ a = SubSeq(b, 1, Len(a))

\* the buffers the decoder may be called on next
NextBuffers == {BCat(cbuf, BTake(wire, n)) : n \in ReadSizes(BLen(wire)) \cup {0}}

\* C9: the decoder is restartable.  On a buffer of fewer than 2 bytes, or
\* of fewer than N+2 bytes for the length prefix N, decode returns "need
\* more" and leaves the buffer as it is; otherwise it removes exactly the
\* first N+2 bytes and leaves the bytes after them.  So the results the
\* reader returns from a stream that arrives in chunks are those of decoding
\* the stream whole: a prefix of them at any time, all of them once the
\* connection is closed and drained.
C9_Restartable ==
    /\ \A b \in NextBuffers :
          LET d == decode(b) IN
          IF BLen(b) < 2 \/ BLen(b) < ReadU16BE(b) + 2
          THEN d.res = "None" /\ d.src = b
          ELSE /\ d.res \in {"Some", "Err"}
               /\ BLen(d.src) = BLen(b) - (ReadU16BE(b) + 2)
               /\ BCat(BTake(b, ReadU16BE(b) + 2), d.src) = b
    /\ LET whole == WholeDecode(EncodeAll(outbox)) IN
       IF inbox # <<>> /\ LastOf(inbox).res = "ErrClosed"
       THEN SubSeq(inbox, 1, Len(inbox) - 1) = whole
       ELSE IsPrefix(inbox, whole)

\* two frames that arrived in pieces, both decoded, then the close
C9_Witness ==
    /\ cpc = "done"
    /\ Len(outbox) = 2
    /\ reads >= 4
    /\ inbox = << [res |-> "Ok", msg |-> outbox[1]],
                  [res |-> "Ok", msg |-> outbox[2]],
                  [res |-> "ErrClosed", msg |-> NoMsg] >>

(***************************************************************************)
(* Properties of read_response on a closed connection, checked under       *)
(* SpecClose.                                                              *)
(***************************************************************************)
\* b holds no complete frame: less than the prefix, or less than the
\* prefix and the N bytes it announces
Incomplete(b) == BLen(b) < 2 \/ BLen(b) < ReadU16BE(b) + 2

\* what the first frame of b, a complete one, is read as
FirstFrame(b) ==
    LET v == FromJson(BTake(BDrop(b, 2), ReadU16BE(b))) IN
    IF v = JsonError
    THEN [res |-> "ErrJson", msg |-> NoMsg]
    ELSE [res |-> "Ok", msg |-> v]

\* C33: if the master closes the control connection before a complete frame
\* has been buffered (no byte, one byte or a part of a frame received),
\* read_response returns the "closed" error: it returns no message and does
\* not read on once the read reports the end of the stream; a complete
\* frame that arrived before the close is still decoded and returned first.
C33_ClosedBeforeFrame ==
    [][(cpc = "closed" /\ reads' = reads + 1) =>
          LET n == BLen(wire) - BLen(wire')
              buf == BCat(cbuf, BTake(wire, n))
          IN IF Incomplete(buf)
             THEN /\ cbuf' = buf
                  /\ IF n = 0
                     THEN /\ inbox' = Append(inbox, [res |-> "ErrClosed",
                                                     msg |-> NoMsg])
                          /\ cpc' = "done"
                     ELSE inbox' = inbox /\ cpc' = cpc
             ELSE /\ inbox' = Append(inbox, FirstFrame(buf))
                  /\ cbuf' = BDrop(buf, ReadU16BE(buf) + 2)
                  /\ FirstFrame(buf).res = "Ok" => cpc' = cpc]_vars

\* a frame and a part of the next were written before the close: one read
\* returned the frame, the next one the "closed" error, the part is left
C33_Witness ==
    /\ cpc = "done"
    /\ reads = 2
    /\ Len(outbox) = 1
    /\ inbox = << [res |-> "Ok", msg |-> outbox[1]],
                  [res |-> "ErrClosed", msg |-> NoMsg] >>
    /\ BLen(cbuf) >= 2
    /\ Incomplete(cbuf)

=============================================================================
